---- MODULE Spec2Model ----
(***************************************************************************)
(* MTU accounting of src/openvpn/mtu.c: the frame record with its          *)
(* finalizer, dynamic MTU controller and overhead redistribution, the      *)
(* protocol header size calculator, the path-MTU discovery policy and the  *)
(* extended socket error interpreter.                                      *)
(*                                                                         *)
(* The four parts do not share state.  Each has a specification of its own *)
(* (Spec, SpecHdr, SpecDisc, SpecErr) over the one tuple of variables; the *)
(* variables of the other parts stay at their idle values.                 *)
(*                                                                         *)
(* int fields are modelled as unbounded integers: every input set below    *)
(* stays far inside the int range, where the C arithmetic is exact.        *)
(***************************************************************************)
EXTENDS Integers, Sequences, FiniteSets, TLC

VARIABLES
    frame,      \* struct frame: link_mtu, link_mtu_dynamic, extra_*
    fpc,        \* "init" (not finalized), "ready" (finalized), "fatal" (process ended)
    call,       \* the last frame operation: its name, arguments, the frame before it
    nsub,       \* number of frame_subtract_extra calls so far (bounded by MaxSubtract)
    hdr,        \* frame_calculate_protocol_header_size: its arguments and its result
    plat,       \* which of the OS path-MTU-discovery macros the build defines
    sockopt,    \* the MTU discovery option last set on the transport socket
    disc,       \* the last path-MTU-discovery policy call and its outcome
    dpc,        \* "run", or "fatal" once a policy call has ended the process
    queue,      \* the socket's error queue: the messages recvmsg has yet to deliver
    rcvd,       \* the messages recvmsg has delivered to format_extended_socket_error
    out,        \* struct buffer out: the text printed so far
    mtu_out,    \* *mtu, the out-parameter of format_extended_socket_error
    epc         \* "idle", "entry" (called), "loop" (inside while (true)), "done" (returned)

frameVars == <<frame, fpc, call, nsub>>
hdrVars == <<hdr>>
discVars == <<plat, sockopt, disc, dpc>>
errVars == <<queue, rcvd, out, mtu_out, epc>>
vars == <<frameVars, hdrVars, discVars, errVars>>

-----------------------------------------------------------------------------
(* Bounds of the model.                                                    *)

MaxSubtract == 2

\* longest run of equal entries in the middle of an error queue
MaxRun == 12

-----------------------------------------------------------------------------
(* mtu.h / integer.h: constants, macros and the clamp used by mtu.c.       *)

TUN_MTU_MIN == 100

SET_MTU_TUN == 1

SET_MTU_UPPER_BOUND == 2

\* flags & bit, for a single-bit mask
HasFlag(flags, bit) == (flags \div bit) % 2 = 1

TUN_LINK_DELTA(f) == f.extra_frame + f.extra_tun

TUN_MTU_SIZE(f) == f.link_mtu - TUN_LINK_DELTA(f)

EXPANDED_SIZE(f) == f.link_mtu

EXPANDED_SIZE_MIN(f) == TUN_MTU_MIN + TUN_LINK_DELTA(f)

constrain_int(x, min, max) ==
    IF min > max THEN min
    ELSE IF x < min THEN min
    ELSE IF x > max THEN max
    ELSE x

-----------------------------------------------------------------------------
(* Inputs.                                                                 *)

ExtraFrameVals == {0, 28, 56}
ExtraTunVals == {0, 14}
ExtraBufferVals == {8}
ExtraLinkVals == {0, 3}

\* --link-mtu / --tun-mtu values given to frame_finalize
LinkMtuArgs == {99, 127, 128, 1500}
TunMtuArgs == {99, 100, 1500}

\* mtu arguments of frame_set_mtu_dynamic (-1 violates its ASSERT)
DynMtuArgs == {-1, 0, 99, 128, 576, 1400, 1500, 9000}
FlagArgs == 0 .. 3

\* the src frames of frame_subtract_extra: only src->extra_frame is read
SrcFrames == [extra_frame : {-4, 0, 4, 28}]

NoCall == [op |-> "none", ldef |-> FALSE, lmtu |-> 0, tdef |-> FALSE, tmtu |-> 0,
           mtu |-> 0, flags |-> 0, src |-> 0, pre |-> <<>>, fatal |-> "none"]

\* a socket on which no MTU discovery option was set
NoSockopt == [opt |-> "unset", type |-> 0]

\* the values the variables of a part keep while another part runs
FrameIdle ==
    /\ frame = [link_mtu |-> 0, link_mtu_dynamic |-> 0, extra_frame |-> 0,
                extra_buffer |-> 0, extra_tun |-> 0, extra_link |-> 0]
    /\ fpc = "idle"
    /\ call = NoCall
    /\ nsub = 0

HdrIdle == hdr = [pc |-> "idle"]

DiscIdle ==
    /\ plat = [ip_mtu_discover |-> FALSE, ipv6_mtu_discover |-> FALSE, ip_pmtudisc |-> FALSE]
    /\ sockopt = NoSockopt
    /\ disc = [op |-> "none"]
    /\ dpc = "idle"

ErrIdle ==
    /\ queue = <<>>
    /\ rcvd = <<>>
    /\ out = ""
    /\ mtu_out = 0
    /\ epc = "idle"

-----------------------------------------------------------------------------
(* The frame operations.                                                   *)

\* frame_finalize: the two ASSERTs, the link_mtu assignment, the minimum
\* check (frame_print at M_FATAL ends the process) and the initialisation of
\* link_mtu_dynamic.
frame_finalize_nocheck(link_mtu_defined, link_mtu, tun_mtu_defined, tun_mtu) ==
    /\ fpc = "init"
    /\ LET rec == [NoCall EXCEPT !.op = "frame_finalize",
                                 !.ldef = link_mtu_defined, !.lmtu = link_mtu,
                                 !.tdef = tun_mtu_defined, !.tmtu = tun_mtu,
                                 !.pre = frame]
           assigned == [frame EXCEPT !.link_mtu =
                            IF tun_mtu_defined THEN tun_mtu + TUN_LINK_DELTA(frame)
                            ELSE link_mtu]
       IN  IF tun_mtu_defined = link_mtu_defined
           THEN /\ fpc' = "fatal"
                /\ call' = [rec EXCEPT !.fatal = "assert"]
                /\ UNCHANGED frame
           ELSE /\ fpc' = "ready"
                /\ call' = rec
                /\ frame' = [assigned EXCEPT !.link_mtu_dynamic = assigned.link_mtu]
    /\ UNCHANGED <<nsub, hdrVars, discVars, errVars>>

frame_finalize(link_mtu_defined, link_mtu, tun_mtu_defined, tun_mtu) ==
    /\ fpc = "init"
    /\ LET rec == [NoCall EXCEPT !.op = "frame_finalize",
                                 !.ldef = link_mtu_defined, !.lmtu = link_mtu,
                                 !.tdef = tun_mtu_defined, !.tmtu = tun_mtu,
                                 !.pre = frame]
           assigned == [frame EXCEPT !.link_mtu =
                            IF tun_mtu_defined THEN tun_mtu + TUN_LINK_DELTA(frame)
                            ELSE link_mtu]
       IN  IF tun_mtu_defined /\ link_mtu_defined
           THEN \* ASSERT(!link_mtu_defined)
                /\ fpc' = "fatal"
                /\ call' = [rec EXCEPT !.fatal = "assert"]
                /\ UNCHANGED frame
           ELSE IF ~tun_mtu_defined /\ ~link_mtu_defined
           THEN \* ASSERT(link_mtu_defined)
                /\ fpc' = "fatal"
                /\ call' = [rec EXCEPT !.fatal = "assert"]
                /\ UNCHANGED frame
           ELSE IF TUN_MTU_SIZE(assigned) < TUN_MTU_MIN
           THEN \* frame_print(frame, M_FATAL, "MTU is too small")
                /\ fpc' = "fatal"
                /\ call' = [rec EXCEPT !.fatal = "MTU is too small"]
                /\ frame' = assigned
           ELSE /\ fpc' = "ready"
                /\ call' = rec
                /\ frame' = [assigned EXCEPT !.link_mtu_dynamic = assigned.link_mtu]
    /\ UNCHANGED <<nsub, hdrVars, discVars, errVars>>

\* mutants of frame_set_mtu_dynamic: a literal floor; SET_MTU_TUN ignored; the
\* upper-bound test dropped
frame_set_mtu_dynamic_literal_floor(mtu, flags) ==
    /\ fpc = "ready"
    /\ mtu >= 0
    /\ LET m == IF HasFlag(flags, SET_MTU_TUN) THEN mtu + TUN_LINK_DELTA(frame) ELSE mtu
       IN  /\ call' = [NoCall EXCEPT !.op = "frame_set_mtu_dynamic",
                                     !.mtu = mtu, !.flags = flags, !.pre = frame]
           /\ frame' = IF ~HasFlag(flags, SET_MTU_UPPER_BOUND) \/ m < frame.link_mtu_dynamic
                       THEN [frame EXCEPT !.link_mtu_dynamic =
                                constrain_int(m, TUN_MTU_MIN, EXPANDED_SIZE(frame))]
                       ELSE frame
    /\ UNCHANGED <<fpc, nsub, hdrVars, discVars, errVars>>

frame_set_mtu_dynamic_no_conversion(mtu, flags) ==
    /\ fpc = "ready"
    /\ mtu >= 0
    /\ call' = [NoCall EXCEPT !.op = "frame_set_mtu_dynamic",
                              !.mtu = mtu, !.flags = flags, !.pre = frame]
    /\ frame' = IF ~HasFlag(flags, SET_MTU_UPPER_BOUND) \/ mtu < frame.link_mtu_dynamic
                THEN [frame EXCEPT !.link_mtu_dynamic =
                         constrain_int(mtu, EXPANDED_SIZE_MIN(frame), EXPANDED_SIZE(frame))]
                ELSE frame
    /\ UNCHANGED <<fpc, nsub, hdrVars, discVars, errVars>>

frame_set_mtu_dynamic_unconditional(mtu, flags) ==
    /\ fpc = "ready"
    /\ mtu >= 0
    /\ LET m == IF HasFlag(flags, SET_MTU_TUN) THEN mtu + TUN_LINK_DELTA(frame) ELSE mtu
       IN  /\ call' = [NoCall EXCEPT !.op = "frame_set_mtu_dynamic",
                                     !.mtu = mtu, !.flags = flags, !.pre = frame]
           /\ frame' = [frame EXCEPT !.link_mtu_dynamic =
                            constrain_int(m, EXPANDED_SIZE_MIN(frame), EXPANDED_SIZE(frame))]
    /\ UNCHANGED <<fpc, nsub, hdrVars, discVars, errVars>>

\* frame_set_mtu_dynamic: ASSERT(mtu >= 0), the tun-to-link conversion, the
\* upper-bound test and the clamped store.
frame_set_mtu_dynamic(mtu, flags) ==
    /\ fpc = "ready"
    /\ LET rec == [NoCall EXCEPT !.op = "frame_set_mtu_dynamic",
                                 !.mtu = mtu, !.flags = flags, !.pre = frame]
           m == IF HasFlag(flags, SET_MTU_TUN) THEN mtu + TUN_LINK_DELTA(frame) ELSE mtu
       IN  IF ~(mtu >= 0)
           THEN /\ fpc' = "fatal"
                /\ call' = [rec EXCEPT !.fatal = "assert"]
                /\ UNCHANGED frame
           ELSE /\ fpc' = fpc
                /\ call' = rec
                /\ frame' = IF ~HasFlag(flags, SET_MTU_UPPER_BOUND)
                               \/ m < frame.link_mtu_dynamic
                            THEN [frame EXCEPT !.link_mtu_dynamic =
                                     constrain_int(m, EXPANDED_SIZE_MIN(frame),
                                                   EXPANDED_SIZE(frame))]
                            ELSE frame
    /\ UNCHANGED <<nsub, hdrVars, discVars, errVars>>

\* mutant of frame_subtract_extra: the octets leave extra_frame and are lost
frame_subtract_extra_lossy(src) ==
    /\ fpc \in {"init", "ready"}
    /\ nsub < MaxSubtract
    /\ nsub' = nsub + 1
    /\ call' = [NoCall EXCEPT !.op = "frame_subtract_extra",
                              !.src = src.extra_frame, !.pre = frame]
    /\ frame' = [frame EXCEPT !.extra_frame = @ - src.extra_frame]
    /\ UNCHANGED <<fpc, hdrVars, discVars, errVars>>

\* frame_subtract_extra: move src->extra_frame octets from extra_frame to extra_tun
frame_subtract_extra(src) ==
    /\ fpc \in {"init", "ready"}
    /\ nsub < MaxSubtract
    /\ nsub' = nsub + 1
    /\ call' = [NoCall EXCEPT !.op = "frame_subtract_extra",
                              !.src = src.extra_frame, !.pre = frame]
    /\ frame' = [frame EXCEPT !.extra_frame = @ - src.extra_frame,
                              !.extra_tun = @ + src.extra_frame]
    /\ UNCHANGED <<fpc, hdrVars, discVars, errVars>>

-----------------------------------------------------------------------------
(* The frame specification.                                                *)

\* a zeroed struct frame whose extra_* fields the callers have filled in
Init ==
    /\ frame \in [link_mtu : {0}, link_mtu_dynamic : {0},
                  extra_frame : ExtraFrameVals, extra_buffer : ExtraBufferVals,
                  extra_tun : ExtraTunVals, extra_link : ExtraLinkVals]
    /\ fpc = "init"
    /\ call = NoCall
    /\ nsub = 0
    /\ HdrIdle /\ DiscIdle /\ ErrIdle

Finalize ==
    \E ld \in BOOLEAN, td \in BOOLEAN, lm \in LinkMtuArgs, tm \in TunMtuArgs :
        frame_finalize(ld, lm, td, tm)

SetMtuDynamic == \E mtu \in DynMtuArgs, flags \in FlagArgs : frame_set_mtu_dynamic(mtu, flags)

SubtractExtra == \E src \in SrcFrames : frame_subtract_extra(src)

Next == Finalize \/ SetMtuDynamic \/ SubtractExtra

Spec == Init /\ [][Next]_vars

-----------------------------------------------------------------------------
(* Claims about the frame operations.                                      *)

\* clamp(x, lo, hi) as the claims use it, for lo <= hi
ClampTo(x, lo, hi) == IF x < lo THEN lo ELSE IF x > hi THEN hi ELSE x

\* the link-side value m' frame_set_mtu_dynamic works with, from the recorded call
RequestedLinkMtu(c) ==
    IF HasFlag(c.flags, SET_MTU_TUN)
    THEN c.mtu + (c.pre.extra_frame + c.pre.extra_tun)
    ELSE c.mtu

SetMtuReturned == call.op = "frame_set_mtu_dynamic" /\ call.fatal = "none"

\* C1: on a finalized frame, after any frame_set_mtu_dynamic and
\* frame_subtract_extra calls, link_mtu_dynamic lies within
\* [EXPANDED_SIZE_MIN(frame), EXPANDED_SIZE(frame)], both taken on the
\* current fields of the frame.
C1_DynamicWithinBounds ==
    fpc = "ready" =>
        /\ EXPANDED_SIZE_MIN(frame) <= frame.link_mtu_dynamic
        /\ frame.link_mtu_dynamic <= EXPANDED_SIZE(frame)

\* a request far above the ceiling, after overhead was redistributed, stored as the ceiling
C1_Witness ==
    /\ fpc = "ready"
    /\ SetMtuReturned
    /\ nsub > 0
    /\ TUN_LINK_DELTA(frame) > 0
    /\ RequestedLinkMtu(call) > EXPANDED_SIZE(frame)
    /\ call.pre.link_mtu_dynamic < EXPANDED_SIZE(frame)
    /\ frame.link_mtu_dynamic = EXPANDED_SIZE(frame)

\* C2: frame_set_mtu_dynamic converts mtu to m' (plus the link/tun delta
\* under SET_MTU_TUN); under SET_MTU_UPPER_BOUND with m' >= D the value stays
\* D, in every other case it becomes clamp(m', floor, ceiling).
C2_SetMtuDynamicResult ==
    SetMtuReturned =>
        LET pre == call.pre
            D == pre.link_mtu_dynamic
            m == RequestedLinkMtu(call)
            floor == TUN_MTU_MIN + pre.extra_frame + pre.extra_tun
            ceiling == pre.link_mtu
        IN  floor <= ceiling =>
                frame.link_mtu_dynamic =
                    IF HasFlag(call.flags, SET_MTU_UPPER_BOUND) /\ m >= D
                    THEN D
                    ELSE ClampTo(m, floor, ceiling)

\* a tun-side upper bound below the current value, stored after conversion, unclamped
C2_Witness ==
    /\ SetMtuReturned
    /\ HasFlag(call.flags, SET_MTU_TUN)
    /\ HasFlag(call.flags, SET_MTU_UPPER_BOUND)
    /\ TUN_LINK_DELTA(call.pre) > 0
    /\ RequestedLinkMtu(call) < call.pre.link_mtu_dynamic
    /\ frame.link_mtu_dynamic = call.mtu + TUN_LINK_DELTA(call.pre)

\* C3: on a finalized frame, a frame_set_mtu_dynamic call carrying
\* SET_MTU_UPPER_BOUND, or a frame_subtract_extra call, never leaves
\* link_mtu_dynamic above its value before the call.
C3_UpperBoundNeverGrows ==
    /\ (SetMtuReturned /\ HasFlag(call.flags, SET_MTU_UPPER_BOUND))
          => frame.link_mtu_dynamic <= call.pre.link_mtu_dynamic
    /\ (call.op = "frame_subtract_extra" /\ fpc = "ready")
          => frame.link_mtu_dynamic <= call.pre.link_mtu_dynamic

\* an upper bound above the current value, which an earlier call had lowered, is ignored
C3_Witness ==
    /\ SetMtuReturned
    /\ HasFlag(call.flags, SET_MTU_UPPER_BOUND)
    /\ RequestedLinkMtu(call) > call.pre.link_mtu_dynamic
    /\ RequestedLinkMtu(call) <= EXPANDED_SIZE(frame)
    /\ frame.link_mtu_dynamic = call.pre.link_mtu_dynamic
    /\ frame.link_mtu_dynamic < EXPANDED_SIZE(frame)

\* C4: frame_finalize is fatal exactly when both or neither of the two
\* *_defined arguments are true, or the tun MTU derived from the assigned
\* link_mtu is below TUN_MTU_MIN; otherwise it completes with link_mtu set
\* from the given value and link_mtu_dynamic = link_mtu.
C4_FinalizeFatalExactly ==
    call.op = "frame_finalize" =>
        LET delta == call.pre.extra_frame + call.pre.extra_tun
            assigned == IF call.tdef THEN call.tmtu + delta ELSE call.lmtu
            bad == \/ (call.ldef /\ call.tdef)
                   \/ (~call.ldef /\ ~call.tdef)
                   \/ assigned - delta < TUN_MTU_MIN
        IN  /\ (fpc = "fatal") <=> bad
            /\ ~bad => /\ fpc = "ready"
                       /\ frame.link_mtu = assigned
                       /\ frame.link_mtu_dynamic = frame.link_mtu

\* a link MTU whose tun side is one octet short of the minimum is refused
C4_Witness ==
    /\ call.op = "frame_finalize"
    /\ call.ldef /\ ~call.tdef
    /\ call.lmtu - TUN_LINK_DELTA(call.pre) = TUN_MTU_MIN - 1
    /\ fpc = "fatal"
    /\ call.fatal = "MTU is too small"

\* C5: frame_subtract_extra moves exactly src.extra_frame octets from
\* extra_frame to extra_tun: their sum, the link/tun delta and the floor are
\* unchanged, and link_mtu, link_mtu_dynamic, extra_buffer and extra_link
\* are untouched.
C5_SubtractExtraConserves ==
    call.op = "frame_subtract_extra" =>
        /\ frame.extra_frame + frame.extra_tun = call.pre.extra_frame + call.pre.extra_tun
        /\ frame.extra_frame = call.pre.extra_frame - call.src
        /\ frame.extra_tun = call.pre.extra_tun + call.src
        /\ TUN_LINK_DELTA(frame) = TUN_LINK_DELTA(call.pre)
        /\ EXPANDED_SIZE_MIN(frame) = EXPANDED_SIZE_MIN(call.pre)
        /\ frame.link_mtu = call.pre.link_mtu
        /\ frame.link_mtu_dynamic = call.pre.link_mtu_dynamic
        /\ frame.extra_buffer = call.pre.extra_buffer
        /\ frame.extra_link = call.pre.extra_link

\* a second redistribution, on a finalized frame, that moves octets
C5_Witness ==
    /\ call.op = "frame_subtract_extra"
    /\ fpc = "ready"
    /\ nsub = 2
    /\ call.src > 0
    /\ frame.extra_tun > call.pre.extra_tun

-----------------------------------------------------------------------------
(* The protocol header size calculator.                                    *)

\* crypto.h / crypto.c: what key_type's cipher and digest contribute
CipherKinds == {"none", "AES-256-GCM", "AES-128-CBC", "AES-128-CFB", "BF-CBC"}
DigestKinds == {"none", "SHA1", "SHA256"}

cipher_defined(cipher) == cipher # "none"
cipher_kt_mode_aead(cipher) == cipher = "AES-256-GCM"
cipher_kt_mode_cbc(cipher) == cipher \in {"AES-128-CBC", "BF-CBC"}
cipher_kt_mode_ofb_cfb(cipher) == cipher = "AES-128-CFB"
cipher_kt_block_size(cipher) == IF cipher = "BF-CBC" THEN 8 ELSE 16
cipher_kt_iv_size(cipher) ==
    IF cipher = "BF-CBC" THEN 8 ELSE IF cipher = "AES-256-GCM" THEN 12 ELSE 16
cipher_kt_tag_size(cipher) == IF cipher_kt_mode_aead(cipher) THEN 16 ELSE 0
md_kt_size(digest) == IF digest = "SHA1" THEN 20 ELSE IF digest = "SHA256" THEN 32 ELSE 0

\* packet_id.h: a 32 bit packet id, plus a 32 bit time stamp in the long form
packet_id_size(long_form) == IF long_form THEN 8 ELSE 4

\* crypto.c
calculate_crypto_overhead(kt, packet_id, packet_id_long_form, payload_size, occ) ==
    (IF packet_id THEN packet_id_size(packet_id_long_form) ELSE 0)
    + (IF cipher_kt_mode_aead(kt.cipher)
       THEN cipher_kt_tag_size(kt.cipher)
            + (IF occ THEN cipher_kt_iv_size(kt.cipher) + cipher_kt_block_size(kt.cipher)
               ELSE 0)
       ELSE (IF cipher_defined(kt.cipher)
             THEN (IF occ \/ (cipher_kt_mode_cbc(kt.cipher)
                              /\ payload_size % cipher_kt_block_size(kt.cipher) = 0)
                   THEN cipher_kt_block_size(kt.cipher) ELSE 0)
                  + cipher_kt_iv_size(kt.cipher)
             ELSE 0)
            + md_kt_size(kt.digest))

\* socket.h
Protos == {"PROTO_UDP", "PROTO_TCP_SERVER", "PROTO_TCP_CLIENT"}
proto_is_udp(proto) == proto = "PROTO_UDP"
proto_is_tcp(proto) == proto \in {"PROTO_TCP_SERVER", "PROTO_TCP_CLIENT"}

\* mutants: the socks header counted on every transport; the opcode counted
\* without a TLS mode
frame_calculate_protocol_header_size_any_proto(kt, options, payload_size, occ) ==
    LET tlsmode == options.tls_server \/ options.tls_client
        packet_id == options.replay
        packet_id_long_form == ~tlsmode \/ cipher_kt_mode_ofb_cfb(kt.cipher)
    IN  (IF options.ce.socks_proxy_server THEN 10 ELSE 0)
        + (IF proto_is_tcp(options.ce.proto) THEN 2 ELSE 0)
        + (IF tlsmode THEN (IF options.use_peer_id THEN 4 ELSE 1) ELSE 0)
        + calculate_crypto_overhead(kt, packet_id, packet_id_long_form, payload_size, occ)

\* frame_calculate_protocol_header_size
frame_calculate_protocol_header_size(kt, options, payload_size, occ) ==
    LET tlsmode == options.tls_server \/ options.tls_client
        packet_id == options.replay
        packet_id_long_form == ~tlsmode \/ cipher_kt_mode_ofb_cfb(kt.cipher)
    IN  (IF options.ce.socks_proxy_server /\ proto_is_udp(options.ce.proto) THEN 10 ELSE 0)
        + (IF proto_is_tcp(options.ce.proto) THEN 2 ELSE 0)
        + (IF tlsmode THEN (IF options.use_peer_id THEN 4 ELSE 1) ELSE 0)
        + calculate_crypto_overhead(kt, packet_id, packet_id_long_form, payload_size, occ)

KeyTypes == [cipher : CipherKinds, digest : DigestKinds]

Options == [tls_server : BOOLEAN, tls_client : BOOLEAN, use_peer_id : BOOLEAN,
            replay : BOOLEAN, ce : [socks_proxy_server : BOOLEAN, proto : Protos]]

PayloadSizes == {0, 1400, 1403}

HdrInit ==
    /\ hdr \in [pc : {"call"}, kt : KeyTypes, options : Options,
                payload_size : PayloadSizes, occ : BOOLEAN]
    /\ FrameIdle /\ DiscIdle /\ ErrIdle

HdrCall ==
    /\ hdr.pc = "call"
    /\ hdr' = [pc |-> "returned", kt |-> hdr.kt, options |-> hdr.options,
               payload_size |-> hdr.payload_size, occ |-> hdr.occ,
               result |-> frame_calculate_protocol_header_size(
                              hdr.kt, hdr.options, hdr.payload_size, hdr.occ)]
    /\ UNCHANGED <<frameVars, discVars, errVars>>

HdrNext == HdrCall

SpecHdr == HdrInit /\ [][HdrNext]_vars

\* the contributions as the claim lists them, each from the options alone
ProxyContribution(o) ==
    IF o.ce.socks_proxy_server /\ o.ce.proto = "PROTO_UDP" THEN 10 ELSE 0
StreamContribution(o) == IF o.ce.proto # "PROTO_UDP" THEN 2 ELSE 0
OpcodeContribution(o) ==
    IF ~(o.tls_server \/ o.tls_client) THEN 0 ELSE IF o.use_peer_id THEN 4 ELSE 1
CryptoContribution(kt, o, payload_size, occ) ==
    calculate_crypto_overhead(kt, o.replay,
        ~(o.tls_server \/ o.tls_client) \/ kt.cipher = "AES-128-CFB", payload_size, occ)

\* C9: frame_calculate_protocol_header_size returns the sum of the
\* contributions computed one by one: 10 for a proxy on a datagram
\* transport, 2 for a stream transport, 4 / 1 / 0 for TLS mode with peer-id /
\* without peer-id / no TLS mode, plus the crypto overhead (packet id iff
\* replay, long form iff no TLS mode or an OFB/CFB cipher).
C9_HeaderSizeAdditive ==
    hdr.pc = "returned" =>
        hdr.result = ProxyContribution(hdr.options) + StreamContribution(hdr.options)
                     + OpcodeContribution(hdr.options)
                     + CryptoContribution(hdr.kt, hdr.options, hdr.payload_size, hdr.occ)

\* proxy, stream framing and peer-id enabled together: 0 + 2 + 4 plus crypto
C9_Witness ==
    /\ hdr.pc = "returned"
    /\ hdr.options.ce.socks_proxy_server
    /\ hdr.options.ce.proto = "PROTO_TCP_CLIENT"
    /\ hdr.options.tls_client /\ hdr.options.use_peer_id
    /\ hdr.options.replay
    /\ hdr.kt.cipher = "AES-256-GCM"
    /\ hdr.result = 2 + 4 + 4 + 16

-----------------------------------------------------------------------------
(* The path-MTU discovery policy.                                          *)

\* <netinet/in.h>: the values of the three discovery modes
IP_PMTUDISC_DONT == 0

IP_PMTUDISC_WANT == 1

IP_PMTUDISC_DO == 2

MTUDISC_NOT_SUPPORTED_MSG == "--mtu-disc is not supported on this OS"

\* the message of the M_FATAL call for an unknown --mtu-disc name: the format
\* string's fixed text, the %s argument, and the names the text lists
InvalidTypeMsg(name) ==
    [text |-> "invalid --mtu-disc type: '%s' -- valid types are 'yes', 'maybe', or 'no'",
     arg |-> name, lists |-> {"yes", "maybe", "no"}]

FixedMsg(text) == [text |-> text, arg |-> "", lists |-> {}]

NoMsg == FixedMsg("")

AddressFamilies == {"AF_INET", "AF_INET6", "AF_UNIX"}
MtuTypeArgs == {-1, 0, 1, 2}
NameArgs == {"yes", "maybe", "no", "Yes", "", "probe", "yes,no"}
Platforms == [ip_mtu_discover : BOOLEAN, ipv6_mtu_discover : BOOLEAN, ip_pmtudisc : BOOLEAN]

DiscReturn(rec, value) ==
    /\ disc' = [rec EXCEPT !.outcome = "return", !.value = value]
    /\ dpc' = dpc

DiscFatal(rec, msg) ==
    /\ disc' = [rec EXCEPT !.outcome = "fatal", !.msg = msg]
    /\ dpc' = "fatal"

DiscRec(op, name, mtu_type, proto_af, pre) ==
    [op |-> op, name |-> name, mtu_type |-> mtu_type, proto_af |-> proto_af,
     pre |-> pre, outcome |-> "", value |-> 0, msg |-> NoMsg]

\* mutant: an address family without its socket option is skipped silently
set_mtu_discover_type_silent(sd, mtu_type, proto_af, setsockopt_fails) ==
    /\ dpc = "run"
    /\ LET rec == DiscRec("set_mtu_discover_type", "", mtu_type, proto_af, sockopt)
       IN  IF mtu_type >= 0 /\ proto_af = "AF_INET" /\ plat.ip_mtu_discover
                /\ ~setsockopt_fails
           THEN sockopt' = [opt |-> "IP_MTU_DISCOVER", type |-> mtu_type] /\ DiscReturn(rec, 0)
           ELSE UNCHANGED sockopt /\ DiscReturn(rec, 0)
    /\ UNCHANGED <<plat, frameVars, hdrVars, errVars>>

\* set_mtu_discover_type: nothing for a negative type; otherwise the socket
\* option of the address family (a failing setsockopt is M_ERR, which is
\* fatal), and M_FATAL for a family the build has no option for.
set_mtu_discover_type(sd, mtu_type, proto_af, setsockopt_fails) ==
    /\ dpc = "run"
    /\ LET rec == DiscRec("set_mtu_discover_type", "", mtu_type, proto_af, sockopt)
       IN  IF ~(mtu_type >= 0)
           THEN UNCHANGED sockopt /\ DiscReturn(rec, 0)
           ELSE IF proto_af = "AF_INET" /\ plat.ip_mtu_discover
           THEN IF setsockopt_fails
                THEN /\ UNCHANGED sockopt
                     /\ DiscFatal(rec, FixedMsg("Error setting IP_MTU_DISCOVER type=%d on TCP/UDP socket"))
                ELSE /\ sockopt' = [opt |-> "IP_MTU_DISCOVER", type |-> mtu_type]
                     /\ DiscReturn(rec, 0)
           ELSE IF proto_af = "AF_INET6" /\ plat.ipv6_mtu_discover
           THEN IF setsockopt_fails
                THEN /\ UNCHANGED sockopt
                     /\ DiscFatal(rec, FixedMsg("Error setting IPV6_MTU_DISCOVER type=%d on TCP6/UDP6 socket"))
                ELSE /\ sockopt' = [opt |-> "IPV6_MTU_DISCOVER", type |-> mtu_type]
                     /\ DiscReturn(rec, 0)
           ELSE /\ UNCHANGED sockopt
                /\ DiscFatal(rec, FixedMsg(MTUDISC_NOT_SUPPORTED_MSG))
    /\ UNCHANGED <<plat, frameVars, hdrVars, errVars>>

\* mutant: "maybe" translated to the same mode as "yes"
translate_mtu_discover_type_name_maybe_as_yes(name) ==
    /\ dpc = "run"
    /\ LET rec == DiscRec("translate_mtu_discover_type_name", name, 0, "", sockopt)
       IN  IF plat.ip_pmtudisc
           THEN IF name \in {"yes", "maybe"} THEN DiscReturn(rec, IP_PMTUDISC_DO)
                ELSE IF name = "no" THEN DiscReturn(rec, IP_PMTUDISC_DONT)
                ELSE DiscFatal(rec, InvalidTypeMsg(name))
           ELSE DiscFatal(rec, FixedMsg(MTUDISC_NOT_SUPPORTED_MSG))
    /\ UNCHANGED <<plat, sockopt, frameVars, hdrVars, errVars>>

\* translate_mtu_discover_type_name: the three strcmp tests and the M_FATAL
\* after them, or the M_FATAL of a build without the IP_PMTUDISC_* values
translate_mtu_discover_type_name(name) ==
    /\ dpc = "run"
    /\ LET rec == DiscRec("translate_mtu_discover_type_name", name, 0, "", sockopt)
       IN  IF plat.ip_pmtudisc
           THEN IF name = "yes" THEN DiscReturn(rec, IP_PMTUDISC_DO)
                ELSE IF name = "maybe" THEN DiscReturn(rec, IP_PMTUDISC_WANT)
                ELSE IF name = "no" THEN DiscReturn(rec, IP_PMTUDISC_DONT)
                ELSE DiscFatal(rec, InvalidTypeMsg(name))
           ELSE DiscFatal(rec, FixedMsg(MTUDISC_NOT_SUPPORTED_MSG))
    /\ UNCHANGED <<plat, sockopt, frameVars, hdrVars, errVars>>

DiscInit ==
    /\ plat \in Platforms
    /\ sockopt = NoSockopt
    /\ disc = [op |-> "none"]
    /\ dpc = "run"
    /\ FrameIdle /\ HdrIdle /\ ErrIdle

SetMtuDiscoverType ==
    \E mtu_type \in MtuTypeArgs, proto_af \in AddressFamilies, fails \in BOOLEAN :
        set_mtu_discover_type("sd", mtu_type, proto_af, fails)

TranslateName == \E name \in NameArgs : translate_mtu_discover_type_name(name)

DiscNext == SetMtuDiscoverType \/ TranslateName

SpecDisc == DiscInit /\ [][DiscNext]_vars

\* a build with none of IP_MTU_DISCOVER, IPV6_MTU_DISCOVER, IP_PMTUDISC_*
LacksFacility == ~plat.ip_mtu_discover /\ ~plat.ipv6_mtu_discover /\ ~plat.ip_pmtudisc

FatalNotSupported ==
    /\ disc.outcome = "fatal"
    /\ dpc = "fatal"
    /\ disc.msg.text = "--mtu-disc is not supported on this OS"

\* C7 as stated: on a platform without the facility both operations are
\* fatal with the "not supported on this OS" message for every input,
\* negative modes included.
C7_AlwaysFatalWithoutFacility ==
    (LacksFacility /\ disc.op # "none") => FatalNotSupported

\* C7 amended: on a platform without the facility
\* translate_mtu_discover_type_name is fatal with the "not supported on this
\* OS" message for every name and set_mtu_discover_type is fatal with it for
\* every mode >= 0 and every address family; for a negative mode
\* set_mtu_discover_type returns normally and leaves the socket untouched.
C7_FatalWithoutFacilityUnlessDisabled ==
    (LacksFacility /\ disc.op # "none") =>
        IF disc.op = "set_mtu_discover_type" /\ disc.mtu_type < 0
        THEN disc.outcome = "return" /\ dpc = "run" /\ sockopt = disc.pre
        ELSE FatalNotSupported

\* a configured mode on an IPv4 socket of a platform without the facility
C7_Witness ==
    /\ LacksFacility
    /\ disc.op = "set_mtu_discover_type"
    /\ disc.mtu_type = 2
    /\ disc.proto_af = "AF_INET"
    /\ FatalNotSupported

\* C8: on a platform with the facility, "yes", "maybe" and "no" translate to
\* three pairwise distinct values (do, want, dont), the same on every call;
\* every other string is fatal with a message listing exactly 'yes', 'maybe'
\* and 'no', and returns no mode.
C8_TranslateNames ==
    (plat.ip_pmtudisc /\ disc.op = "translate_mtu_discover_type_name") =>
        LET modeOf == [n \in {"yes", "maybe", "no"} |->
                          IF n = "yes" THEN IP_PMTUDISC_DO
                          ELSE IF n = "maybe" THEN IP_PMTUDISC_WANT
                          ELSE IP_PMTUDISC_DONT]
        IN  /\ Cardinality({modeOf[n] : n \in DOMAIN modeOf}) = 3
            /\ disc.name \in DOMAIN modeOf =>
                   disc.outcome = "return" /\ disc.value = modeOf[disc.name] /\ dpc = "run"
            /\ disc.name \notin DOMAIN modeOf =>
                   /\ disc.outcome = "fatal" /\ dpc = "fatal"
                   /\ disc.msg.lists = {"yes", "maybe", "no"}
                   /\ disc.msg.arg = disc.name

\* a name that differs from "yes" only in case is refused
C8_Witness ==
    /\ plat.ip_pmtudisc
    /\ disc.op = "translate_mtu_discover_type_name"
    /\ disc.name = "Yes"
    /\ disc.outcome = "fatal"

-----------------------------------------------------------------------------
(* The extended socket error interpreter.                                  *)

\* alloc_buf_gc(256, gc): the capacity of out
OutCapacity == 256

\* buffer.c, buf_printf: vsnprintf into the room left in the buffer, which
\* keeps one octet for the terminating NUL and drops what does not fit
buf_printf(buf, text) ==
    LET cap == OutCapacity - Len(buf)
        n == IF Len(text) < cap - 1 THEN Len(text) ELSE cap - 1
    IN  IF cap > 0 /\ n > 0 THEN buf \o SubSeq(text, 1, n) ELSE buf

\* buffer.c, buf_rmtail: drop the last character if it is the given one
buf_rmtail(buf, remove) ==
    IF Len(buf) > 0 /\ SubSeq(buf, Len(buf), Len(buf)) = remove
    THEN SubSeq(buf, 1, Len(buf) - 1)
    ELSE buf

\* <linux/in.h>: the control message types at level SOL_IP
IP_TTL == 2

IP_RECVERR == 11

\* a control message of a received error-queue message
Cmsg(level, type, errno, info) ==
    [cmsg_level |-> level, cmsg_type |-> type, ee_errno |-> errno, ee_info |-> info]

\* a message whose one control message is the IP_RECVERR one
ErrMsg(errno, info) == << Cmsg("SOL_IP", IP_RECVERR, errno, info) >>

TtlCmsg == Cmsg("SOL_IP", IP_TTL, "", 0)

Messages ==
    { ErrMsg("ETIMEDOUT", 0), ErrMsg("EMSGSIZE", 1400), ErrMsg("EMSGSIZE", 576),
      ErrMsg("ECONNREFUSED", 0), ErrMsg("EPROTO", 0), ErrMsg("EHOSTUNREACH", 0),
      ErrMsg("ENETUNREACH", 0), ErrMsg("EACCES", 0), ErrMsg("EPIPE", 0),
      << >>,
      << Cmsg("SOL_SOCKET", 29, "", 0) >>,
      << TtlCmsg >>,
      << TtlCmsg, Cmsg("SOL_IP", IP_RECVERR, "EHOSTUNREACH", 0) >> }

RECURSIVE Repeat(_, _)
Repeat(m, n) == IF n = 0 THEN << >> ELSE << m >> \o Repeat(m, n - 1)

ShortQueues == { << >> } \cup { << m >> : m \in Messages }

\* the error queues of the model: at most one entry of any kind, a run of
\* message-too-large entries, at most one entry of any kind
Queues ==
    { pre \o Repeat(ErrMsg("EMSGSIZE", 1400), n) \o post :
        pre \in ShortQueues, n \in 0 .. MaxRun, post \in ShortQueues }

\* the for loop over the control messages, from index i on: e is the index
\* of the last SOL_IP / IP_RECVERR control message seen (0 for NULL), buf the
\* out buffer after the "CMSG=%d|" prints
RECURSIVE ScanCmsgs(_, _, _, _)
ScanCmsgs(cmsgs, i, e, buf) ==
    IF i > Len(cmsgs) THEN [e |-> e, buf |-> buf]
    ELSE IF cmsgs[i].cmsg_level = "SOL_IP"
         THEN IF cmsgs[i].cmsg_type = IP_RECVERR
              THEN ScanCmsgs(cmsgs, i + 1, i, buf)
              ELSE ScanCmsgs(cmsgs, i + 1, e,
                             buf_printf(buf, "CMSG=" \o ToString(cmsgs[i].cmsg_type) \o "|"))
         ELSE ScanCmsgs(cmsgs, i + 1, e, buf)

\* the switch on e->ee_errno: the text it prints
ErrnoText(e) ==
    CASE e.ee_errno = "ETIMEDOUT" -> "ETIMEDOUT|"
      [] e.ee_errno = "EMSGSIZE" -> "EMSGSIZE Path-MTU=" \o ToString(e.ee_info) \o "|"
      [] e.ee_errno = "ECONNREFUSED" -> "ECONNREFUSED|"
      [] e.ee_errno = "EPROTO" -> "EPROTO|"
      [] e.ee_errno = "EHOSTUNREACH" -> "EHOSTUNREACH|"
      [] e.ee_errno = "ENETUNREACH" -> "ENETUNREACH|"
      [] e.ee_errno = "EACCES" -> "EACCES|"
      [] OTHER -> "UNKNOWN|"

\* format_extended_socket_error up to the loop: the buffers and *mtu = 0
format_extended_socket_error_enter ==
    /\ epc = "entry"
    /\ out' = ""
    /\ mtu_out' = 0
    /\ epc' = "loop"
    /\ UNCHANGED <<queue, rcvd, frameVars, hdrVars, discVars>>

\* mutant: an unknown error code leaves the loop
format_extended_socket_error_loop_unknown_exits(recv_fails) ==
    /\ epc = "loop"
    /\ IF queue = << >> \/ recv_fails
       THEN /\ out' = buf_rmtail(out, "|")
            /\ epc' = "done"
            /\ UNCHANGED <<queue, rcvd, mtu_out>>
       ELSE LET cmsgs == Head(queue)
                scan == ScanCmsgs(cmsgs, 1, 0, out)
            IN  /\ queue' = Tail(queue)
                /\ rcvd' = Append(rcvd, cmsgs)
                /\ IF scan.e = 0
                   THEN /\ out' = buf_rmtail(buf_printf(scan.buf, "NO-INFO|"), "|")
                        /\ epc' = "done"
                        /\ UNCHANGED mtu_out
                   ELSE IF ErrnoText(cmsgs[scan.e]) = "UNKNOWN|"
                   THEN /\ out' = buf_rmtail(buf_printf(scan.buf, "UNKNOWN|"), "|")
                        /\ epc' = "done"
                        /\ UNCHANGED mtu_out
                   ELSE /\ out' = buf_printf(scan.buf, ErrnoText(cmsgs[scan.e]))
                        /\ mtu_out' = IF cmsgs[scan.e].ee_errno = "EMSGSIZE"
                                      THEN cmsgs[scan.e].ee_info ELSE mtu_out
                        /\ epc' = "loop"
    /\ UNCHANGED <<frameVars, hdrVars, discVars>>

\* one iteration of while (true): recvmsg (it fails on an empty queue, and
\* may fail otherwise), the scan of the control messages, NO-INFO and exit
\* without an IP_RECVERR one, else the switch; at exit, buf_rmtail and return
format_extended_socket_error_loop(recv_fails) ==
    /\ epc = "loop"
    /\ IF queue = << >> \/ recv_fails
       THEN /\ out' = buf_rmtail(out, "|")
            /\ epc' = "done"
            /\ UNCHANGED <<queue, rcvd, mtu_out>>
       ELSE LET cmsgs == Head(queue)
                scan == ScanCmsgs(cmsgs, 1, 0, out)
            IN  /\ queue' = Tail(queue)
                /\ rcvd' = Append(rcvd, cmsgs)
                /\ IF scan.e = 0
                   THEN /\ out' = buf_rmtail(buf_printf(scan.buf, "NO-INFO|"), "|")
                        /\ epc' = "done"
                        /\ UNCHANGED mtu_out
                   ELSE /\ out' = buf_printf(scan.buf, ErrnoText(cmsgs[scan.e]))
                        /\ mtu_out' = IF cmsgs[scan.e].ee_errno = "EMSGSIZE"
                                      THEN cmsgs[scan.e].ee_info ELSE mtu_out
                        /\ epc' = "loop"
    /\ UNCHANGED <<frameVars, hdrVars, discVars>>

\* the caller's int mtu is not initialised before the call
ErrInit ==
    /\ queue \in Queues
    /\ rcvd = << >>
    /\ out = ""
    /\ mtu_out \in {0, 1500}
    /\ epc = "entry"
    /\ FrameIdle /\ HdrIdle /\ DiscIdle

ErrLoop == \E recv_fails \in BOOLEAN : format_extended_socket_error_loop(recv_fails)

ErrNext == format_extended_socket_error_enter \/ ErrLoop

\* a call that has started runs on until it returns
SpecErr == ErrInit /\ [][ErrNext]_vars /\ WF_vars(ErrNext)

-----------------------------------------------------------------------------
(* Claims about the extended socket error interpreter.                     *)

\* an entry carries structured error metadata: an IP_RECVERR control message
HasErrInfo(m) ==
    \E i \in 1 .. Len(m) : m[i].cmsg_level = "SOL_IP" /\ m[i].cmsg_type = IP_RECVERR

\* the error metadata of such an entry
ErrInfo(m) ==
    LET last == CHOOSE i \in 1 .. Len(m) :
                    /\ m[i].cmsg_level = "SOL_IP" /\ m[i].cmsg_type = IP_RECVERR
                    /\ \A j \in (i + 1) .. Len(m) :
                           ~(m[j].cmsg_level = "SOL_IP" /\ m[j].cmsg_type = IP_RECVERR)
    IN  m[last]

\* the name of an entry's classification
ClassName(m) ==
    IF ~HasErrInfo(m) THEN "NO-INFO"
    ELSE LET e == ErrInfo(m)
         IN  IF e.ee_errno = "EMSGSIZE"
             THEN "EMSGSIZE Path-MTU=" \o ToString(e.ee_info)
             ELSE IF e.ee_errno \in {"ETIMEDOUT", "ECONNREFUSED", "EPROTO",
                                     "EHOSTUNREACH", "ENETUNREACH", "EACCES"}
             THEN e.ee_errno
             ELSE "UNKNOWN"

\* the notes on an entry's other SOL_IP control messages, which precede its classification
RECURSIVE CmsgNotes(_, _)
CmsgNotes(m, i) ==
    IF i > Len(m) THEN ""
    ELSE (IF m[i].cmsg_level = "SOL_IP" /\ m[i].cmsg_type # IP_RECVERR
          THEN "CMSG=" \o ToString(m[i].cmsg_type) \o "|" ELSE "")
         \o CmsgNotes(m, i + 1)

\* the pipe-delimited trace of the classifications of the entries, in order
RECURSIVE TraceOf(_)
TraceOf(entries) ==
    IF entries = << >> THEN ""
    ELSE CmsgNotes(Head(entries), 1) \o ClassName(Head(entries))
         \o (IF Len(entries) > 1 THEN "|" ELSE "") \o TraceOf(Tail(entries))

\* the path MTU of the last message-too-large entry, 0 without one
RECURSIVE LastTooLarge(_)
LastTooLarge(entries) ==
    IF entries = << >> THEN 0
    ELSE LET m == entries[Len(entries)]
         IN  IF HasErrInfo(m) /\ ErrInfo(m).ee_errno = "EMSGSIZE"
             THEN ErrInfo(m).ee_info
             ELSE LastTooLarge(SubSeq(entries, 1, Len(entries) - 1))

EndsWith(text, tail) ==
    /\ Len(text) >= Len(tail)
    /\ SubSeq(text, Len(text) - Len(tail) + 1, Len(text)) = tail

\* C6 as stated: for any sequence of entries the returned trace lists the
\* classification of every entry received, in receipt order; the MTU
\* reported is the path MTU of the last message-too-large entry received, or
\* 0; an entry without structured metadata makes the trace end at NO-INFO.
C6_TraceListsEveryEntry ==
    epc = "done" =>
        /\ out = TraceOf(rcvd)
        /\ mtu_out = LastTooLarge(rcvd)
        /\ (rcvd # << >> /\ ~HasErrInfo(rcvd[Len(rcvd)])) => EndsWith(out, "NO-INFO")

\* What holds of the code: the same, for the entries whose trace fits into
\* the 255 characters of out; the MTU is reported whatever the length.
TraceWithinCapacity ==
    epc = "done" =>
        /\ Len(TraceOf(rcvd)) < OutCapacity => out = TraceOf(rcvd)
        /\ Len(out) < OutCapacity
        /\ mtu_out = LastTooLarge(rcvd)

\* C10: format_extended_socket_error terminates; every iteration receives
\* exactly one entry or ends the loop on a failed receive; the loop ends
\* only on a failed receive or on an entry without structured error
\* metadata; an entry of any classification, unknown error codes included,
\* does not end it.
C10_DrainStep ==
    epc = "loop" =>
        \/ /\ queue # << >>
           /\ queue' = Tail(queue)
           /\ rcvd' = Append(rcvd, Head(queue))
           /\ epc' = (IF HasErrInfo(Head(queue)) THEN "loop" ELSE "done")
        \/ /\ queue' = queue
           /\ rcvd' = rcvd
           /\ epc' = "done"

C10_DrainTerminates == [][C10_DrainStep]_vars /\ <>(epc = "done")

\* the drain went on past an entry with an unknown error code to the end of the queue
C10_Witness ==
    /\ epc = "done"
    /\ queue = << >>
    /\ Len(rcvd) >= 3
    /\ HasErrInfo(rcvd[1]) /\ ClassName(rcvd[1]) = "UNKNOWN"
    /\ ClassName(rcvd[Len(rcvd)]) = "EHOSTUNREACH"

====
